---- MODULE Spec2Model ----
(***************************************************************************)
(* Model of the pricing core of insurtech_guy/agent.py: the reference      *)
(* tables, the classifier helpers, calculate_premium and the three tools   *)
(* get_insurance_quotes, get_available_addons and purchase_policy.         *)
(*                                                                         *)
(* Representation.                                                         *)
(*  - A Python str on which the code does character work (lower, strip,    *)
(*    upper, slicing) is a sequence of one-character strings.  Strings     *)
(*    that are only compared or echoed are TLA+ strings.                   *)
(*  - A Python float is an exact fraction <<n, d>> in lowest terms, d > 0. *)
(*    round(x, 2) yields an integer number of cents.  The car values of    *)
(*    the model are chosen so that no premium lands exactly on half a      *)
(*    cent, where binary and decimal arithmetic could round differently.   *)
(*  - A Python dict payload is a record; a call either returns a payload   *)
(*    or raises, and the outcome records which.                            *)
(***************************************************************************)
EXTENDS Integers, Sequences, FiniteSets, TLC

VARIABLES op, car_brand, car_value, driver_age, license_years,
          insurer_name, coverage_tier, annual_premium, pc, result,
          tables,    \* the module-level tables as they are now
          history,   \* the calls made so far in a session, oldest first
          seen       \* the first outcome of each get_insurance_quotes input

vars == <<op, car_brand, car_value, driver_age, license_years,
          insurer_name, coverage_tier, annual_premium, pc, result,
          tables, history, seen>>

\* Number of positive car values of CarValueList the calls are tried with.
NumCarValues == 3

\* Number of distinct digits the random policy suffix is drawn from.
NumDigitChoices == 2

\* Number of calls in a session.
MaxCalls == 4

----------------------------------------------------------------------------
\* Exact arithmetic standing for Python float arithmetic.

Abs(x) == IF x < 0 THEN -x ELSE x

RECURSIVE GCD(_, _)
GCD(a, b) == IF b = 0 THEN a ELSE GCD(b, a % b)

Rat(n, d) == LET g == GCD(Abs(n), d) IN <<n \div g, d \div g>>

\* x * y, cancelling across before multiplying.
Mul(x, y) ==
  LET g1 == GCD(Abs(x[1]), y[2])
      g2 == GCD(Abs(y[1]), x[2])
  IN  <<(x[1] \div g1) * (y[1] \div g2), (x[2] \div g2) * (y[2] \div g1)>>

\* x + k for an integer k.
AddInt(x, k) == <<x[1] + k * x[2], x[2]>>

\* x / k for a positive integer k.
DivInt(x, k) == Mul(x, Rat(1, k))

Less(x, y) == x[1] * y[2] < y[1] * x[2]

\* Python max(a, b): b only when b > a.
Max(x, y) == IF Less(x, y) THEN y ELSE x

\* Python round(x, 2) as a number of cents: nearest, ties to even.
Round2(x) ==
  LET c == Mul(x, <<100, 1>>)
      q == c[1] \div c[2]
      r == c[1] % c[2]
  IN  IF 2 * r > c[2] \/ (2 * r = c[2] /\ q % 2 = 1) THEN q + 1 ELSE q

----------------------------------------------------------------------------
\* str.lower, str.upper, str.strip and slicing on character sequences.

LowerChars == <<"a", "b", "c", "d", "e", "f", "g", "h", "i", "j", "k", "l", "m",
                "n", "o", "p", "q", "r", "s", "t", "u", "v", "w", "x", "y", "z">>

UpperChars == <<"A", "B", "C", "D", "E", "F", "G", "H", "I", "J", "K", "L", "M",
                "N", "O", "P", "Q", "R", "S", "T", "U", "V", "W", "X", "Y", "Z">>

LowerChar(c) ==
  IF \E i \in 1..Len(UpperChars) : UpperChars[i] = c
  THEN LowerChars[CHOOSE i \in 1..Len(UpperChars) : UpperChars[i] = c]
  ELSE c

UpperChar(c) ==
  IF \E i \in 1..Len(LowerChars) : LowerChars[i] = c
  THEN UpperChars[CHOOSE i \in 1..Len(LowerChars) : LowerChars[i] = c]
  ELSE c

Lower(s) == [i \in 1..Len(s) |-> LowerChar(s[i])]

Upper(s) == [i \in 1..Len(s) |-> UpperChar(s[i])]

IsSpace(c) == c \in {" ", "\t", "\n"}

RECURSIVE LStrip(_)
LStrip(s) == IF s # <<>> /\ IsSpace(Head(s)) THEN LStrip(Tail(s)) ELSE s

RECURSIVE RStrip(_)
RStrip(s) ==
  IF s # <<>> /\ IsSpace(s[Len(s)]) THEN RStrip(SubSeq(s, 1, Len(s) - 1)) ELSE s

Strip(s) == RStrip(LStrip(s))

\* s[:n]
Take(s, n) == SubSeq(s, 1, IF Len(s) < n THEN Len(s) ELSE n)

----------------------------------------------------------------------------
\* Reference tables.

GEICO == <<"G", "E", "I", "C", "O">>
Progressive == <<"P", "r", "o", "g", "r", "e", "s", "s", "i", "v", "e">>
StateFarm == <<"S", "t", "a", "t", "e", "F", "a", "r", "m">>
Allstate == <<"A", "l", "l", "s", "t", "a", "t", "e">>
Travelers == <<"T", "r", "a", "v", "e", "l", "e", "r", "s">>

\* INSURERS.keys(), in insertion order.
INSURER_KEYS_at_load == <<GEICO, Progressive, StateFarm, Allstate, Travelers>>

INSURERS_at_load ==
  (GEICO :> [name |-> GEICO, multiplier |-> Rat(95, 100),
             reputation |-> "Budget-friendly, fast quotes",
             available_add_ons |-> <<"roadside_assistance", "rental_car">>,
             special_features |-> <<>>]) @@
  (Progressive :> [name |-> Progressive, multiplier |-> Rat(98, 100),
             reputation |-> "Innovative, name-your-price",
             available_add_ons |-> <<"roadside_assistance", "rental_car",
                                     "accident_forgiveness">>,
             special_features |-> <<>>]) @@
  (StateFarm :> [name |-> StateFarm, multiplier |-> Rat(100, 100),
             reputation |-> "Like a good neighbor, reliable",
             available_add_ons |-> <<"roadside_assistance", "rental_car",
                                     "gap_insurance", "accident_forgiveness">>,
             special_features |-> <<>>]) @@
  (Allstate :> [name |-> Allstate, multiplier |-> Rat(105, 100),
             reputation |-> "You're in good hands",
             available_add_ons |-> <<"roadside_assistance", "gap_insurance",
                                     "accident_forgiveness">>,
             special_features |-> <<>>]) @@
  (Travelers :> [name |-> Travelers, multiplier |-> Rat(108, 100),
             reputation |-> "Premium service, established since 1853",
             available_add_ons |-> <<"roadside_assistance", "rental_car",
                                     "gap_insurance", "accident_forgiveness",
                                     "oem_parts_guarantee">>,
             special_features |-> <<"concierge_claims_service">>])

liability == <<"l", "i", "a", "b", "i", "l", "i", "t", "y">>
standard == <<"s", "t", "a", "n", "d", "a", "r", "d">>
premium == <<"p", "r", "e", "m", "i", "u", "m">>

COVERAGE_TIERS_at_load ==
  (liability :> [name |-> "Liability Only", price_multiplier |-> Rat(30, 100),
                 minimum_annual |-> 700,
                 includes |-> <<"Bodily Injury Liability",
                                "Property Damage Liability">>]) @@
  (standard :> [name |-> "Standard Coverage", price_multiplier |-> Rat(100, 100),
                 minimum_annual |-> 2000,
                 includes |-> <<"Bodily Injury Liability",
                                "Property Damage Liability",
                                "Collision Coverage", "Comprehensive Coverage",
                                "Uninsured Motorist">>]) @@
  (premium :> [name |-> "Premium Coverage", price_multiplier |-> Rat(100, 100),
                 minimum_annual |-> 2500,
                 includes |-> <<"Everything in Standard",
                                "Plus selected add-ons">>])

ADD_ONS_at_load ==
  [roadside_assistance |-> [name |-> "Roadside Assistance", annual_cost |-> 50],
   rental_car |-> [name |-> "Rental Car Coverage", annual_cost |-> 75],
   gap_insurance |-> [name |-> "Gap Insurance", annual_cost |-> 100],
   accident_forgiveness |-> [name |-> "Accident Forgiveness", annual_cost |-> 150],
   oem_parts_guarantee |-> [name |-> "OEM Parts Guarantee", annual_cost |-> 75],
   concierge_claims |-> [name |-> "Concierge Claims Service", annual_cost |-> 0]]

BRAND_RATES_at_load ==
  [american |-> Rat(50, 1000), japanese |-> Rat(55, 1000),
   german |-> Rat(60, 1000), other |-> Rat(65, 1000)]

\* CAR_BRANDS.items(), in insertion order.
CAR_BRANDS_at_load ==
  <<
    << "american", <<
        <<"F", "o", "r", "d">>,
        <<"C", "h", "e", "v", "r", "o", "l", "e", "t">>,
        <<"C", "h", "e", "v", "y">>,
        <<"D", "o", "d", "g", "e">>,
        <<"G", "M", "C">>,
        <<"J", "e", "e", "p">>,
        <<"C", "a", "d", "i", "l", "l", "a", "c">>,
        <<"L", "i", "n", "c", "o", "l", "n">>,
        <<"B", "u", "i", "c", "k">>,
        <<"C", "h", "r", "y", "s", "l", "e", "r">>,
        <<"R", "a", "m">> >> >>,
    << "japanese", <<
        <<"T", "o", "y", "o", "t", "a">>,
        <<"H", "o", "n", "d", "a">>,
        <<"N", "i", "s", "s", "a", "n">>,
        <<"M", "a", "z", "d", "a">>,
        <<"S", "u", "b", "a", "r", "u">>,
        <<"L", "e", "x", "u", "s">>,
        <<"A", "c", "u", "r", "a">>,
        <<"I", "n", "f", "i", "n", "i", "t", "i">>,
        <<"M", "i", "t", "s", "u", "b", "i", "s", "h", "i">> >> >>,
    << "german", <<
        <<"B", "M", "W">>,
        <<"M", "e", "r", "c", "e", "d", "e", "s">>,
        <<"M", "e", "r", "c", "e", "d", "e", "s", "-", "B", "e", "n", "z">>,
        <<"A", "u", "d", "i">>,
        <<"V", "o", "l", "k", "s", "w", "a", "g", "e", "n">>,
        <<"V", "W">>,
        <<"P", "o", "r", "s", "c", "h", "e">>,
        <<"M", "i", "n", "i">> >> >>
  >>

AGE_ADJUSTMENT_at_load ==
  ("18-25" :> Rat(115, 100)) @@ ("26-60" :> Rat(100, 100)) @@ ("60+" :> Rat(90, 100))

EXPERIENCE_ADJUSTMENT_at_load ==
  ("0-2" :> Rat(120, 100)) @@ ("3-5" :> Rat(110, 100)) @@ ("5+" :> Rat(100, 100))

\* The tables as the module's top-level statements build them.
TablesAtLoad ==
  [INSURER_KEYS |-> INSURER_KEYS_at_load,
   INSURERS |-> INSURERS_at_load,
   COVERAGE_TIERS |-> COVERAGE_TIERS_at_load,
   ADD_ONS |-> ADD_ONS_at_load,
   BRAND_RATES |-> BRAND_RATES_at_load,
   CAR_BRANDS |-> CAR_BRANDS_at_load,
   AGE_ADJUSTMENT |-> AGE_ADJUSTMENT_at_load,
   EXPERIENCE_ADJUSTMENT |-> EXPERIENCE_ADJUSTMENT_at_load]

\* A function reads a table by its global name: it sees the current contents.
INSURER_KEYS == tables.INSURER_KEYS
INSURERS == tables.INSURERS
COVERAGE_TIERS == tables.COVERAGE_TIERS
ADD_ONS == tables.ADD_ONS
BRAND_RATES == tables.BRAND_RATES
CAR_BRANDS == tables.CAR_BRANDS
AGE_ADJUSTMENT == tables.AGE_ADJUSTMENT
EXPERIENCE_ADJUSTMENT == tables.EXPERIENCE_ADJUSTMENT

\* Python None, as returned by the bracket helpers.
None == "None"

----------------------------------------------------------------------------
\* Outcome of a call: the payload it returns or the exception it raises,
\* with the tables it read (reads) and the per-insurer calculations it made
\* (calls), both up to the point where it stopped.

Return(v, reads, calls) ==
  [kind |-> "return", value |-> v, reads |-> reads, calls |-> calls]

Raise(e, reads, calls) ==
  [kind |-> "raise", exc |-> e, reads |-> reads, calls |-> calls]

Range(s) == {s[i] : i \in 1..Len(s)}

\* quote.get("success"): the key is present and its value is truthy.
IsSuccess(d) == "success" \in DOMAIN d /\ d.success

IsError(d) == "error" \in DOMAIN d

----------------------------------------------------------------------------
\* Helper functions.

get_brand_category(brand) ==
  LET brand_lower == Strip(Lower(brand))
      hits == {c \in 1..Len(CAR_BRANDS) :
                 \E j \in 1..Len(CAR_BRANDS[c][2]) :
                    Lower(CAR_BRANDS[c][2][j]) = brand_lower}
  IN  IF hits = {} THEN "other"
      ELSE CAR_BRANDS[CHOOSE c \in hits : \A d \in hits : c <= d][1]

get_age_bracket(age) ==
  IF age < 18 THEN None
  ELSE IF age <= 25 THEN "18-25"
  ELSE IF age <= 60 THEN "26-60"
  ELSE "60+"

get_experience_bracket(years) ==
  IF years < 0 THEN None
  ELSE IF years <= 2 THEN "0-2"
  ELSE IF years <= 5 THEN "3-5"
  ELSE "5+"

\* The catalog entries of an insurer's available_add_ons, in order.
CatalogAddOns(insurer) ==
  SelectSeq(insurer.available_add_ons, LAMBDA addon_id : addon_id \in DOMAIN ADD_ONS)

get_addon_names(name) ==
  IF name \notin DOMAIN INSURERS THEN <<>>
  ELSE LET insurer == INSURERS[name]
           ids == CatalogAddOns(insurer)
           names == [n \in 1..Len(ids) |-> ADD_ONS[ids[n]].name]
       IN  IF "concierge_claims_service" \in Range(insurer.special_features)
           THEN Append(names, "Concierge Service (FREE)")
           ELSE names

RECURSIVE SumCosts(_)
SumCosts(ids) ==
  IF ids = <<>> THEN 0 ELSE ADD_ONS[Head(ids)].annual_cost + SumCosts(Tail(ids))

get_addon_total(name) ==
  IF name \notin DOMAIN INSURERS THEN 0
  ELSE SumCosts(CatalogAddOns(INSURERS[name]))

----------------------------------------------------------------------------
\* calculate_premium, in the order of its statements.

\* The validation with the age limit off by one.
premium_age_rejected_off_by_one(age) == age < 17

\* The age validation that opens calculate_premium.
premium_age_rejected(age) == age < 18

\* The insurer multiplier first, the tier minimum after it.
apply_minimum_after_insurer(adjusted_premium, minimum_annual, insurer_multiplier) ==
  Max(Mul(adjusted_premium, insurer_multiplier), <<minimum_annual, 1>>)

\* The tier minimum, then the insurer multiplier.
apply_minimum_and_insurer(adjusted_premium, minimum_annual, insurer_multiplier) ==
  Mul(Max(adjusted_premium, <<minimum_annual, 1>>), insurer_multiplier)

\* The add-on total charged whatever the tier.
add_on_total_any_tier(name, tier) == get_addon_total(name)

\* add_on_total of a quote.
premium_add_on_total(name, tier) ==
  IF tier = premium THEN get_addon_total(name) ELSE 0

\* add_on_details of a quote.
premium_add_on_details(name, tier) ==
  IF tier = premium
  THEN LET ids == CatalogAddOns(INSURERS[name])
           details == [n \in 1..Len(ids) |->
                         [name |-> ADD_ONS[ids[n]].name,
                          cost |-> ADD_ONS[ids[n]].annual_cost]]
       IN  IF name = Travelers
           THEN Append(details, [name |-> "Concierge Claims Service", cost |-> 0])
           ELSE details
  ELSE <<>>

\* The monthly figure derived from the already rounded annual figure.
monthly_of_rounded_annual(final_premium) ==
  Round2(DivInt(Rat(Round2(final_premium), 100), 12))

\* round(final_premium / 12, 2)
monthly_of(final_premium) == Round2(DivInt(final_premium, 12))

\* round(final_premium, 2)
annual_of(final_premium) == Round2(final_premium)

calculate_premium(brand, value, age, years, name, tier) ==
  IF premium_age_rejected(age)
  THEN Return([error |-> <<"Driver must be at least 18 years old">>], {}, <<>>)
  ELSE
  LET brand_category == get_brand_category(brand)
      base_rate == BRAND_RATES[brand_category]
      base_premium == Mul(<<value, 1>>, base_rate)
      age_bracket == get_age_bracket(age)
      exp_bracket == get_experience_bracket(years)
      r_age == {"CAR_BRANDS", "BRAND_RATES", "AGE_ADJUSTMENT"}
      r_exp == r_age \cup {"EXPERIENCE_ADJUSTMENT"}
      r_ins == r_exp \cup {"INSURERS"}
      r_tier == r_ins \cup {"COVERAGE_TIERS"}
      r_all == IF tier = premium THEN r_tier \cup {"ADD_ONS"} ELSE r_tier
  IN
  IF age_bracket \notin DOMAIN AGE_ADJUSTMENT THEN Raise("KeyError", r_age, <<>>)
  ELSE IF exp_bracket \notin DOMAIN EXPERIENCE_ADJUSTMENT
  THEN Raise("KeyError", r_exp, <<>>)
  ELSE IF name \notin DOMAIN INSURERS
  THEN Return([error |-> <<"Unknown insurer: ", name>>], r_ins, <<>>)
  ELSE IF tier \notin DOMAIN COVERAGE_TIERS
  THEN Return([error |-> <<"Unknown tier: ", tier>>], r_tier, <<>>)
  ELSE
  LET age_multiplier == AGE_ADJUSTMENT[age_bracket]
      exp_multiplier == EXPERIENCE_ADJUSTMENT[exp_bracket]
      insurer == INSURERS[name]
      tier_info == COVERAGE_TIERS[tier]
      adjusted_premium ==
        Mul(Mul(Mul(base_premium, age_multiplier), exp_multiplier),
            tier_info.price_multiplier)
      final_premium ==
        AddInt(apply_minimum_and_insurer(adjusted_premium,
                                         tier_info.minimum_annual,
                                         insurer.multiplier),
               premium_add_on_total(name, tier))
  IN  Return([success |-> TRUE,
              insurer |-> name,
              reputation |-> insurer.reputation,
              tier |-> tier,
              tier_name |-> tier_info.name,
              brand_category |-> brand_category,
              annual_premium |-> annual_of(final_premium),
              monthly_premium |-> monthly_of(final_premium),
              add_ons |-> premium_add_on_details(name, tier),
              coverage_includes |-> tier_info.includes],
             r_all, <<>>)

----------------------------------------------------------------------------
\* Agent tools.

all == <<"a", "l", "l">>

\* The age validation that opens get_insurance_quotes.
quotes_age_rejected(age) == age < 18

\* The sort with the order reversed.
RECURSIVE sort_quotes_descending(_)
sort_quotes_descending(quotes) ==
  IF quotes = <<>> THEN <<>>
  ELSE LET front == sort_quotes_descending(SubSeq(quotes, 1, Len(quotes) - 1))
           x == quotes[Len(quotes)]
           k == Cardinality({i \in 1..Len(front) :
                               front[i].annual_premium >= x.annual_premium})
       IN  SubSeq(front, 1, k) \o <<x>> \o SubSeq(front, k + 1, Len(front))

\* list.sort(key = annual_premium): ascending and stable.
RECURSIVE sort_quotes(_)
sort_quotes(quotes) ==
  IF quotes = <<>> THEN <<>>
  ELSE LET front == sort_quotes(SubSeq(quotes, 1, Len(quotes) - 1))
           x == quotes[Len(quotes)]
           k == Cardinality({i \in 1..Len(front) :
                               front[i].annual_premium <= x.annual_premium})
       IN  SubSeq(front, 1, k) \o <<x>> \o SubSeq(front, k + 1, Len(front))

\* The tiers a selector expands to; <<>> when the selector is unknown.
selected_tiers(selector) ==
  IF Lower(selector) = all THEN <<liability, standard, premium>>
  ELSE IF Lower(selector) \in {liability, standard, premium}
  THEN <<Lower(selector)>>
  ELSE <<>>

\* The add-on names attached to a quote of the aggregated result.
quote_add_ons(name, tier) ==
  IF tier = premium THEN get_addon_names(name) ELSE <<>>

\* The entry of the aggregated result made from one successful quote.
quote_entry(quote, tier) ==
  [insurer |-> quote.insurer,
   reputation |-> quote.reputation,
   annual_premium |-> quote.annual_premium,
   monthly_premium |-> quote.monthly_premium,
   add_ons |-> quote_add_ons(quote.insurer, tier)]

get_insurance_quotes(brand, value, age, years, selector) ==
  IF quotes_age_rejected(age)
  THEN Return([error |-> <<"Driver must be at least 18 years old.">>], {}, <<>>)
  ELSE IF value <= 0
  THEN Return([error |-> <<"Car value must be positive.">>], {}, <<>>)
  ELSE IF selected_tiers(selector) = <<>>
  THEN Return([error |-> <<"Unknown tier: ", selector>>], {}, <<>>)
  ELSE
  LET tiers == selected_tiers(selector)
      n == Len(INSURER_KEYS)
      \* the calculations of the two loops, in the order they are made
      plan == [k \in 1..(Len(tiers) * n) |->
                 <<INSURER_KEYS[((k - 1) % n) + 1], tiers[((k - 1) \div n) + 1]>>]
      outcome == [k \in 1..Len(plan) |->
                    calculate_premium(brand, value, age, years,
                                      plan[k][1], plan[k][2])]
      raising == {k \in 1..Len(plan) : outcome[k].kind = "raise"}
      done == IF raising = {} THEN Len(plan)
              ELSE CHOOSE k \in raising : \A j \in raising : k <= j
      reads == UNION {outcome[k].reads : k \in 1..done}
      listed == {k \in 1..done : plan[k][2] = premium /\ outcome[k].kind = "return"
                                  /\ IsSuccess(outcome[k].value)}
      all_reads == IF listed = {} THEN reads ELSE reads \cup {"INSURERS", "ADD_ONS"}
      tier_quotes(t) ==
        LET idx == SelectSeq([k \in 1..Len(plan) |-> k],
                             LAMBDA k : plan[k][2] = t /\ IsSuccess(outcome[k].value))
        IN  [m \in 1..Len(idx) |-> quote_entry(outcome[idx[m]].value, t)]
  IN  IF raising # {}
      THEN Raise(outcome[done].exc, all_reads, SubSeq(plan, 1, done))
      ELSE Return([success |-> TRUE,
                   car_brand |-> brand,
                   car_value |-> value,
                   quotes |-> [t \in Range(tiers) |-> sort_quotes(tier_quotes(t))]],
                  all_reads, plan)

get_available_addons(name) ==
  IF name \notin DOMAIN INSURERS
  THEN Return([error |-> <<"Unknown insurer: ", name>>], {"INSURERS"}, <<>>)
  ELSE LET insurer == INSURERS[name]
           ids == CatalogAddOns(insurer)
           addons == [k \in 1..Len(ids) |->
                        [name |-> ADD_ONS[ids[k]].name,
                         cost |-> ADD_ONS[ids[k]].annual_cost]]
       IN  Return([insurer |-> name,
                   available_add_ons |->
                     IF "concierge_claims_service" \in Range(insurer.special_features)
                     THEN Append(addons, [name |-> "Concierge Claims Service",
                                          cost |-> 0,
                                          note |-> "FREE with Premium"])
                     ELSE addons],
                  {"INSURERS", "ADD_ONS"}, <<>>)

\* string.digits
digits == <<"0", "1", "2", "3", "4", "5", "6", "7", "8", "9">>

\* k of random.choices(string.digits, k=8)
SuffixLen == 8

\* The prefix without the conversion to upper case.
policy_prefix_as_typed(name) == Take(name, 3)

\* insurer_name[:3].upper()
policy_prefix(name) == Upper(Take(name, 3))

\* The f-string that builds the policy number around the drawn suffix.
policy_number_of(name, suffix) == policy_prefix(name) \o <<"-">> \o suffix

\* premium is the annual premium in cents; suffix is what random.choices drew.
\* The vehicle, customer and date arguments are only echoed and are left out.
purchase_policy(name, tier, cents, suffix) ==
  IF name \notin DOMAIN INSURERS
  THEN Return([error |-> <<"Unknown insurer: ", name>>], {"INSURERS"}, <<>>)
  ELSE Return([success |-> TRUE,
               policy_number |-> policy_number_of(name, suffix),
               insurer |-> name,
               coverage |-> tier,
               annual_premium |-> cents,
               monthly_premium |-> Round2(DivInt(Rat(cents, 100), 12))],
              {"INSURERS"}, <<>>)

----------------------------------------------------------------------------
\* What a call leaves in the module-level tables.  No function assigns to a
\* table or to an object reached through one: the lists they fill (quotes,
\* add_on_details, addons, names) are created inside the call.

tables_after_helper(T) == T

tables_after_calculate_premium(T) == T

tables_after_get_insurance_quotes(T) == T

\* The special-feature entry appended to the insurer's own add-on list, as
\* if addons were that list and not a new one.
tables_after_addons_aliased(T, name) ==
  IF name \in DOMAIN T.INSURERS
     /\ "concierge_claims_service" \in Range(T.INSURERS[name].special_features)
  THEN [T EXCEPT !.INSURERS[name].available_add_ons = Append(@, "concierge_claims")]
  ELSE T

tables_after_get_available_addons(T, name) == T

tables_after_purchase_policy(T) == T

----------------------------------------------------------------------------
\* Inputs the calls are made with.

Toyota == <<"T", "o", "y", "o", "t", "a">>
bmw_padded == <<" ", "b", "m", "w", " ">>
Ford == <<"F", "o", "r", "d">>
Tesla == <<"T", "e", "s", "l", "a">>
Lemonade == <<"L", "e", "m", "o", "n", "a", "d", "e">>
gold == <<"g", "o", "l", "d">>
ALL_upper == <<"A", "L", "L">>
All_mixed == <<"A", "l", "l">>
Premium_mixed == <<"P", "r", "e", "m", "i", "u", "m">>

Brands == {Toyota, bmw_padded, Ford, Tesla}

\* 20000 is the worked example; 64000 is above every tier floor; the others
\* are floored for some brackets and not for others.
CarValueList == <<20000, 64000, 38400, 51200, 12345>>

CarValues ==
  {0} \cup {CarValueList[i] : i \in {j \in 1..Len(CarValueList) : j <= NumCarValues}}

Ages == {17, 18, 30, 61}

LicenseYears == {-1, 2, 5, 10}

InsurerNames == Range(INSURER_KEYS) \cup {Lemonade}

TierIds == {liability, standard, premium, gold}

TierSelectors == {all, ALL_upper, All_mixed, liability, standard, Premium_mixed, gold}

PremiumCents == {200000, 250001}

DigitChoices == {digits[i] : i \in {j \in 1..Len(digits) : j <= NumDigitChoices}}

Suffixes == [1..SuffixLen -> DigitChoices]

Pending == [kind |-> "pending"]

\* The arguments an operation does not take.
NoBrand == <<>>
NoName == <<>>
NoTier == <<>>

Init ==
  /\ tables = TablesAtLoad
  /\ history = <<>>
  /\ seen = <<>>
  /\ pc = "call"
  /\ result = Pending
  /\ \/ /\ op = "calculate_premium"
        /\ car_brand \in Brands
        /\ car_value \in CarValues
        /\ driver_age \in Ages
        /\ license_years \in LicenseYears
        /\ insurer_name \in InsurerNames
        /\ coverage_tier \in TierIds
        /\ annual_premium = 0
     \/ /\ op = "get_insurance_quotes"
        /\ car_brand \in Brands
        /\ car_value \in CarValues
        /\ driver_age \in Ages
        /\ license_years \in LicenseYears
        /\ insurer_name = NoName
        /\ coverage_tier \in TierSelectors
        /\ annual_premium = 0
     \/ /\ op \in {"get_available_addons", "get_addon_names", "get_addon_total"}
        /\ car_brand = NoBrand
        /\ car_value = 0
        /\ driver_age = 0
        /\ license_years = 0
        /\ insurer_name \in InsurerNames
        /\ coverage_tier = NoTier
        /\ annual_premium = 0
     \/ /\ op = "purchase_policy"
        /\ car_brand = NoBrand
        /\ car_value = 0
        /\ driver_age = 0
        /\ license_years = 0
        /\ insurer_name \in InsurerNames
        /\ coverage_tier \in {standard, premium}
        /\ annual_premium \in PremiumCents

Args == <<op, car_brand, car_value, driver_age, license_years,
          insurer_name, coverage_tier, annual_premium>>

CalculatePremium ==
  /\ pc = "call" /\ op = "calculate_premium"
  /\ result' = calculate_premium(car_brand, car_value, driver_age, license_years,
                                 insurer_name, coverage_tier)
  /\ pc' = "done"
  /\ tables' = tables_after_calculate_premium(tables)
  /\ UNCHANGED <<Args, history, seen>>

GetInsuranceQuotes ==
  /\ pc = "call" /\ op = "get_insurance_quotes"
  /\ result' = get_insurance_quotes(car_brand, car_value, driver_age,
                                    license_years, coverage_tier)
  /\ pc' = "done"
  /\ tables' = tables_after_get_insurance_quotes(tables)
  /\ UNCHANGED <<Args, history, seen>>

GetAvailableAddons ==
  /\ pc = "call" /\ op = "get_available_addons"
  /\ result' = get_available_addons(insurer_name)
  /\ pc' = "done"
  /\ tables' = tables_after_get_available_addons(tables, insurer_name)
  /\ UNCHANGED <<Args, history, seen>>

GetAddonNames ==
  /\ pc = "call" /\ op = "get_addon_names"
  /\ result' = Return(get_addon_names(insurer_name), {"INSURERS", "ADD_ONS"}, <<>>)
  /\ pc' = "done"
  /\ tables' = tables_after_helper(tables)
  /\ UNCHANGED <<Args, history, seen>>

GetAddonTotal ==
  /\ pc = "call" /\ op = "get_addon_total"
  /\ result' = Return(get_addon_total(insurer_name), {"INSURERS", "ADD_ONS"}, <<>>)
  /\ pc' = "done"
  /\ tables' = tables_after_helper(tables)
  /\ UNCHANGED <<Args, history, seen>>

PurchasePolicy ==
  /\ pc = "call" /\ op = "purchase_policy"
  /\ \E suffix \in Suffixes :
       result' = purchase_policy(insurer_name, coverage_tier, annual_premium, suffix)
  /\ pc' = "done"
  /\ tables' = tables_after_purchase_policy(tables)
  /\ UNCHANGED <<Args, history, seen>>

Next ==
  \/ CalculatePremium
  \/ GetInsuranceQuotes
  \/ GetAvailableAddons
  \/ GetAddonNames
  \/ GetAddonTotal
  \/ PurchasePolicy

Spec == Init /\ [][Next]_vars

----------------------------------------------------------------------------
\* A session: up to MaxCalls calls of the three tools, one after the other in
\* any order, on the tables the calls before have left.

SessionQuoteInputs ==
  {<<Toyota, 20000, 30, 10, ALL_upper>>, <<Ford, 64000, 18, 2, premium>>}

SessionInsurers == {Travelers, Lemonade}

SessionSuffixes == {[i \in 1..SuffixLen |-> d] : d \in DigitChoices}

NotCalled == [kind |-> "not called"]

SessionInit ==
  /\ tables = TablesAtLoad
  /\ history = <<>>
  /\ seen = [k \in SessionQuoteInputs |-> NotCalled]
  /\ pc = "idle"
  /\ op = "none"
  /\ car_brand = NoBrand
  /\ car_value = 0
  /\ driver_age = 0
  /\ license_years = 0
  /\ insurer_name = NoName
  /\ coverage_tier = NoTier
  /\ annual_premium = 0
  /\ result = Pending

SessionQuotes ==
  /\ Len(history) < MaxCalls
  /\ \E k \in SessionQuoteInputs :
       /\ op' = "get_insurance_quotes"
       /\ car_brand' = k[1]
       /\ car_value' = k[2]
       /\ driver_age' = k[3]
       /\ license_years' = k[4]
       /\ coverage_tier' = k[5]
       /\ insurer_name' = NoName
       /\ annual_premium' = 0
       /\ result' = get_insurance_quotes(k[1], k[2], k[3], k[4], k[5])
       /\ tables' = tables_after_get_insurance_quotes(tables)
       /\ history' = Append(history, <<"get_insurance_quotes", k>>)
       /\ seen' = IF seen[k] = NotCalled THEN [seen EXCEPT ![k] = result'] ELSE seen
  /\ pc' = "done"

SessionAddons ==
  /\ Len(history) < MaxCalls
  /\ \E name \in SessionInsurers :
       /\ op' = "get_available_addons"
       /\ insurer_name' = name
       /\ result' = get_available_addons(name)
       /\ tables' = tables_after_get_available_addons(tables, name)
       /\ history' = Append(history, <<"get_available_addons", name>>)
  /\ car_brand' = NoBrand
  /\ car_value' = 0
  /\ driver_age' = 0
  /\ license_years' = 0
  /\ coverage_tier' = NoTier
  /\ annual_premium' = 0
  /\ pc' = "done"
  /\ UNCHANGED seen

SessionPurchase ==
  /\ Len(history) < MaxCalls
  /\ \E name \in SessionInsurers, suffix \in SessionSuffixes :
       /\ op' = "purchase_policy"
       /\ insurer_name' = name
       /\ result' = purchase_policy(name, standard, 200000, suffix)
       /\ history' = Append(history, <<"purchase_policy", name>>)
  /\ tables' = tables_after_purchase_policy(tables)
  /\ car_brand' = NoBrand
  /\ car_value' = 0
  /\ driver_age' = 0
  /\ license_years' = 0
  /\ coverage_tier' = standard
  /\ annual_premium' = 200000
  /\ pc' = "done"
  /\ UNCHANGED seen

SessionNext ==
  \/ SessionQuotes
  \/ SessionAddons
  \/ SessionPurchase

SessionSpec == SessionInit /\ [][SessionNext]_vars

----------------------------------------------------------------------------
\* Vocabulary of the properties: the call that has just returned, and the
\* premium the pricing rules prescribe for its arguments.

Done(o) == pc = "done" /\ op = o

Returned == result.kind = "return"

KnownInsurer == insurer_name \in Range(INSURER_KEYS)

KnownTier == coverage_tier \in {liability, standard, premium}

ValidDriver == car_value > 0 /\ driver_age >= 18 /\ license_years >= 0

ValidCalculation == Done("calculate_premium") /\ ValidDriver /\ KnownInsurer /\ KnownTier

\* vehicle_value * brand_rate * age_multiplier * experience_multiplier
\*   * tier.price_multiplier
RawPremium ==
  Mul(Mul(Mul(Mul(<<car_value, 1>>, BRAND_RATES[get_brand_category(car_brand)]),
              AGE_ADJUSTMENT[get_age_bracket(driver_age)]),
          EXPERIENCE_ADJUSTMENT[get_experience_bracket(license_years)]),
      COVERAGE_TIERS[coverage_tier].price_multiplier)

TierMinimum == <<COVERAGE_TIERS[coverage_tier].minimum_annual, 1>>

FloorBinds == Less(RawPremium, TierMinimum)

\* max(raw, tier.minimum_annual) * insurer.multiplier
PreAddOnPremium ==
  Mul(IF FloorBinds THEN TierMinimum ELSE RawPremium,
      INSURERS[insurer_name].multiplier)

RECURSIVE SumOfCosts(_)
SumOfCosts(entries) ==
  IF entries = <<>> THEN 0 ELSE Head(entries).cost + SumOfCosts(Tail(entries))

\* The annual cost, in dollars, of every catalog add-on the insurer offers.
RECURSIVE OfferedCost(_)
OfferedCost(ids) ==
  IF ids = <<>> THEN 0
  ELSE (IF Head(ids) \in DOMAIN ADD_ONS THEN ADD_ONS[Head(ids)].annual_cost ELSE 0)
       + OfferedCost(Tail(ids))

----------------------------------------------------------------------------
\* C1: for every known insurer and tier and every valid input, the premium
\* before add-ons is max(value * brand rate * age multiplier * experience
\* multiplier * tier price multiplier, tier minimum) * insurer multiplier:
\* the floor is applied before the insurer multiplier, so the returned
\* annual premium less its add-on costs is that amount rounded, and is
\* never below the rounded tier minimum times the insurer multiplier.  The
\* worked example (20000, Toyota, 30, 10, standard, StateFarm) gives 2000.00
\* annual and 166.67 monthly.
C1_FloorBeforeInsurerMultiplier ==
  ValidCalculation =>
    /\ Returned /\ IsSuccess(result.value)
    /\ result.value.annual_premium - 100 * SumOfCosts(result.value.add_ons)
         = Round2(PreAddOnPremium)
    /\ result.value.annual_premium - 100 * SumOfCosts(result.value.add_ons)
         >= Round2(Mul(TierMinimum, INSURERS[insurer_name].multiplier))
    /\ (car_value = 20000 /\ car_brand = Toyota /\ driver_age = 30
        /\ license_years = 10 /\ coverage_tier = standard
        /\ insurer_name = StateFarm)
         => (result.value.annual_premium = 200000
             /\ result.value.monthly_premium = 16667)

\* A quote whose raw premium is below the tier minimum, from an insurer that
\* discounts: the discount is taken from the minimum.
C1_Witness ==
  /\ ValidCalculation
  /\ FloorBinds
  /\ Less(INSURERS[insurer_name].multiplier, <<1, 1>>)
  /\ IsSuccess(result.value)
  /\ result.value.annual_premium < 100 * COVERAGE_TIERS[coverage_tier].minimum_annual

\* C2: every call of get_insurance_quotes returns a success payload or an
\* error payload and never raises; with age >= 18, value > 0, a valid tier
\* selector and negative license years it returns an error payload.
C2_QuotesNeverRaise ==
  Done("get_insurance_quotes") =>
    /\ Returned
    /\ IsSuccess(result.value) \/ IsError(result.value)
    /\ (driver_age >= 18 /\ car_value > 0 /\ license_years < 0
        /\ Lower(coverage_tier) \in {all, liability, standard, premium})
         => IsError(result.value)

\* C3: listing the add-ons of an insurer id that is not in the insurer table
\* returns an empty list and not an error, in get_available_addons as well
\* as in get_addon_names, and the add-on total of such an insurer is 0.
C3_UnknownInsurerListsNothing ==
  (pc = "done" /\ insurer_name \notin DOMAIN INSURERS) =>
    /\ op = "get_available_addons" =>
         (Returned /\ ~IsError(result.value)
          /\ result.value.available_add_ons = <<>>)
    /\ op = "get_addon_names" => (Returned /\ result.value = <<>>)
    /\ op = "get_addon_total" => (Returned /\ result.value = 0)

\* C4: for a driver age below 18, calculate_premium and get_insurance_quotes
\* both return the ineligible-driver error before any insurer is attempted:
\* no table is read, no per-insurer calculation is made, no quote is returned.
C4_UnderageRejectedFirst ==
  ((Done("calculate_premium") \/ Done("get_insurance_quotes")) /\ driver_age < 18) =>
    /\ Returned
    /\ IsError(result.value)
    /\ result.value.error[1] \in {"Driver must be at least 18 years old",
                                  "Driver must be at least 18 years old."}
    /\ DOMAIN result.value = {"error"}
    /\ result.reads = {}
    /\ result.calls = <<>>

\* An aggregated call for a 17-year-old that came back with the error.
C4_Witness ==
  /\ Done("get_insurance_quotes")
  /\ driver_age = 17
  /\ car_value > 0
  /\ Returned
  /\ IsError(result.value)

\* C5: calculate_premium with age >= 18 and an insurer id or tier id that is
\* not in the reference tables returns an error value naming the unknown id,
\* whatever the other arguments are (negative license years included), and
\* never a quote or an exception.
C5_UnknownReferenceIsErrorValue ==
  (Done("calculate_premium") /\ driver_age >= 18 /\ ~(KnownInsurer /\ KnownTier)) =>
    /\ Returned
    /\ IsError(result.value)
    /\ ~IsSuccess(result.value)
    /\ Len(result.value.error) = 2
    /\ \/ ~KnownInsurer /\ result.value.error[2] = insurer_name
       \/ ~KnownTier /\ result.value.error[2] = coverage_tier

\* C6: for every valid input, get_insurance_quotes with the selector "all"
\* in any letter case returns a quotes map whose keys are exactly liability,
\* standard and premium, and each tier's list is in non-decreasing order of
\* annual premium.
C6_AllTiersSortedAscending ==
  (Done("get_insurance_quotes") /\ ValidDriver
   /\ coverage_tier \in {all, ALL_upper, All_mixed}) =>
    /\ Returned /\ IsSuccess(result.value)
    /\ DOMAIN result.value.quotes = {liability, standard, premium}
    /\ \A t \in DOMAIN result.value.quotes :
         \A i, j \in 1..Len(result.value.quotes[t]) :
           i < j => result.value.quotes[t][i].annual_premium
                      <= result.value.quotes[t][j].annual_premium

\* An upper-case "ALL" call that returned every insurer in all three tiers,
\* at different prices.
C6_Witness ==
  /\ Done("get_insurance_quotes") /\ ValidDriver
  /\ coverage_tier = ALL_upper
  /\ Returned /\ IsSuccess(result.value)
  /\ \A t \in {liability, standard, premium} :
       /\ Len(result.value.quotes[t]) = Len(INSURER_KEYS)
       /\ result.value.quotes[t][1].annual_premium
            < result.value.quotes[t][Len(INSURER_KEYS)].annual_premium

\* C7: for every known insurer and valid input, a premium-tier quote adds to
\* the floored and multiplied premium the annual cost of all catalog add-ons
\* the insurer offers and lists them in order, followed by the free special
\* feature at zero cost when the insurer has one; a liability or standard
\* quote adds no add-on cost and has an empty add-on list.  The worked
\* example (GEICO premium, 20000, Toyota, 30, 10) gives 2500.00.
C7_PremiumTierBundlesAllAddOns ==
  ValidCalculation =>
    LET insurer == INSURERS[insurer_name]
        offered == SelectSeq(insurer.available_add_ons,
                             LAMBDA a : a \in DOMAIN ADD_ONS)
        listed == result.value.add_ons
    IN  /\ Returned /\ IsSuccess(result.value)
        /\ coverage_tier = premium =>
             /\ result.value.annual_premium
                  = Round2(PreAddOnPremium)
                    + 100 * OfferedCost(insurer.available_add_ons)
             /\ Len(listed) = Len(offered)
                              + (IF insurer.special_features # <<>> THEN 1 ELSE 0)
             /\ \A n \in 1..Len(offered) :
                  /\ listed[n].name = ADD_ONS[offered[n]].name
                  /\ listed[n].cost = ADD_ONS[offered[n]].annual_cost
             /\ insurer.special_features # <<>> =>
                  listed[Len(listed)] = [name |-> "Concierge Claims Service",
                                         cost |-> 0]
        /\ coverage_tier # premium =>
             /\ listed = <<>>
             /\ result.value.annual_premium = Round2(PreAddOnPremium)
        /\ (car_value = 20000 /\ car_brand = Toyota /\ driver_age = 30
            /\ license_years = 10 /\ coverage_tier = premium
            /\ insurer_name = GEICO)
             => result.value.annual_premium = 250000

\* A premium-tier quote of the insurer with a special feature: its priced
\* add-ons are charged and the free feature closes the list.
C7_Witness ==
  /\ ValidCalculation
  /\ coverage_tier = premium
  /\ INSURERS[insurer_name].special_features # <<>>
  /\ IsSuccess(result.value)
  /\ Len(result.value.add_ons) = 6
  /\ result.value.add_ons[6].cost = 0
  /\ result.value.annual_premium = Round2(PreAddOnPremium) + 45000

\* C8: for every known insurer, the add-on names get_insurance_quotes
\* attaches to a premium-tier quote are the names of the add-on list
\* calculate_premium returns for the same insurer and tier, entry by entry
\* and in the same order, the free special feature included.
C8_AggregatedNamesMatchCalculator ==
  (Done("get_insurance_quotes") /\ Returned /\ IsSuccess(result.value)
   /\ premium \in DOMAIN result.value.quotes) =>
    \A n \in 1..Len(result.value.quotes[premium]) :
      LET entry == result.value.quotes[premium][n]
          quote == calculate_premium(car_brand, car_value, driver_age,
                                     license_years, entry.insurer, premium)
      IN  /\ Len(entry.add_ons) = Len(quote.value.add_ons)
          /\ \A m \in 1..Len(entry.add_ons) :
               entry.add_ons[m] = quote.value.add_ons[m].name

\* C9 as stated: the policy number of a known insurer is the 3-letter
\* upper-case prefix of the insurer id directly followed by the 8-digit
\* suffix, and an unknown insurer gets an error value and no policy number.
C9_PrefixThenDigitsOnly ==
  Done("purchase_policy") =>
    /\ Returned
    /\ KnownInsurer =>
         /\ IsSuccess(result.value)
         /\ Len(result.value.policy_number) = 3 + SuffixLen
         /\ SubSeq(result.value.policy_number, 1, 3) = Upper(Take(insurer_name, 3))
         /\ \A n \in 4..(3 + SuffixLen) :
              result.value.policy_number[n] \in Range(digits)
    /\ ~KnownInsurer =>
         (IsError(result.value) /\ "policy_number" \notin DOMAIN result.value)

\* The upper-case prefixes of the five insurer ids, written out.
ExpectedPrefix ==
  (GEICO :> <<"G", "E", "I">>) @@ (Progressive :> <<"P", "R", "O">>) @@
  (StateFarm :> <<"S", "T", "A">>) @@ (Allstate :> <<"A", "L", "L">>) @@
  (Travelers :> <<"T", "R", "A">>)

\* C9 (amended): the policy number of a known insurer is the 3-letter
\* upper-case prefix of the insurer id, a hyphen, and an 8-digit numeric
\* suffix, 12 characters in all; purchase_policy with an insurer id that is
\* not in the insurer table returns an error value and no policy number.
C9_PrefixHyphenDigits ==
  Done("purchase_policy") =>
    /\ Returned
    /\ KnownInsurer =>
         /\ IsSuccess(result.value)
         /\ Len(result.value.policy_number) = 3 + 1 + SuffixLen
         /\ SubSeq(result.value.policy_number, 1, 3) = ExpectedPrefix[insurer_name]
         /\ result.value.policy_number[4] = "-"
         /\ \A n \in 5..(4 + SuffixLen) :
              result.value.policy_number[n] \in Range(digits)
    /\ ~KnownInsurer =>
         (IsError(result.value) /\ "policy_number" \notin DOMAIN result.value)

\* A policy issued by an insurer whose id is not all upper case, with a
\* suffix that uses more than one digit.
C9_Witness ==
  /\ Done("purchase_policy")
  /\ insurer_name = Progressive
  /\ IsSuccess(result.value)
  /\ SubSeq(result.value.policy_number, 1, 4) = <<"P", "R", "O", "-">>
  /\ result.value.policy_number[5] # result.value.policy_number[12]

\* C10: for every known insurer and tier and every valid input, the monthly
\* premium is the unrounded annual premium divided by 12 and then rounded to
\* cents, and the annual premium is the unrounded annual premium rounded to
\* cents: each is rounded on its own, the monthly figure is not taken from
\* the rounded annual figure.
C10_IndependentRounding ==
  ValidCalculation =>
    LET unrounded == AddInt(PreAddOnPremium,
                            IF coverage_tier = premium
                            THEN OfferedCost(INSURERS[insurer_name].available_add_ons)
                            ELSE 0)
    IN  /\ Returned /\ IsSuccess(result.value)
        /\ result.value.annual_premium = Round2(unrounded)
        /\ result.value.monthly_premium = Round2(DivInt(unrounded, 12))

\* A quote whose monthly figure differs from the one the rounded annual
\* figure would give, and whose twelve months do not add up to the annual.
C10_Witness ==
  /\ ValidCalculation
  /\ IsSuccess(result.value)
  /\ result.value.monthly_premium
       # Round2(DivInt(Rat(result.value.annual_premium, 100), 12))
  /\ 12 * result.value.monthly_premium # result.value.annual_premium

====
